---- MODULE Spec2Model ----
(***************************************************************************)
(* cursedtypist: the typing game engine of src/src/cursedtypist/game.py.   *)
(*                                                                         *)
(* GameModel holds the text, the player and tracer positions and the       *)
(* result; GameController runs two asyncio tasks (stdin_actor,             *)
(* timer_actor) that call into the model and resolve the future `state`,   *)
(* which loop() awaits.                                                    *)
(*                                                                         *)
(* Encoding of Python values:                                              *)
(*   model.result  None / True / False   ->  "Unset" / "Won" / "Lost"      *)
(*   controller.state (asyncio.Future)   ->  "PENDING" or the result set   *)
(*   view (a GameView, observed as a mock): call counts per method and     *)
(*   the argument of the last print_message call                           *)
(***************************************************************************)
EXTENDS Integers, Sequences, FiniteSets, TLC

\* ------------------------------------------------------------------ bounds

\* longest text explored
MaxLen == 3

\* most transition calls a test makes on a bare GameModel
MaxCalls == 6

\* ------------------------------------------------------- program constants

\* params.PLAYER_INIT_OFFSET (imported at game.py:7)
PLAYER_INIT_OFFSET == 4

\* ------------------------------------------------------------------ inputs

\* characters a text is made of
Alphabet == {"a", "b"}

\* keys wait_key can deliver: the characters of the alphabet and one key
\* that occurs in no text (chr(0) in the tests, "KEY_UP" under curses)
Keys == Alphabet \cup {"z"}

Texts == UNION {[1..n -> Alphabet] : n \in 0..MaxLen}

VARIABLES
    model,      \* the GameModel instance: view, tracer, player, text, result
    state,      \* GameController.state, the future loop() awaits
    pc_stdin,   \* the stdin_actor task
    pc_timer,   \* the timer_actor task
    pc_loop,    \* the loop() coroutine and the event loop running it
    returned,   \* the value loop() returned to its caller
    trace,      \* calls made on a bare model by a test, in order
    exc,        \* exception the last direct call raised to the test
    race,       \* order of the two events of a last-character race
    paged,      \* the paged GameModel of src/cursedtypist/game.py
    original,   \* the text that paged model was constructed on
    typed       \* the keys that paged model accepted as correct, in order

\* the state of the paged game and its history
paged_vars == <<paged, original, typed>>

vars == <<model, state, pc_stdin, pc_timer, pc_loop, returned, trace, exc, race,
          paged_vars>>

\* --------------------------------------------------------------- GameView

\* a view on which nothing was called yet
MockView ==
    [init_screen |-> 0, game_screen |-> 0, death_screen |-> 0,
     win_screen |-> 0, print_message |-> 0, drop_floor |-> 0,
     move_player |-> 0, refresh |-> 0, message |-> "NOT CALLED"]

init_screen(view) == [view EXCEPT !.init_screen = @ + 1]

game_screen(view) == [view EXCEPT !.game_screen = @ + 1]

death_screen(view) == [view EXCEPT !.death_screen = @ + 1]

win_screen(view) == [view EXCEPT !.win_screen = @ + 1]

print_message(view, msg) ==
    [view EXCEPT !.print_message = @ + 1, !.message = msg]

drop_floor(view) == [view EXCEPT !.drop_floor = @ + 1]

move_player(view) == [view EXCEPT !.move_player = @ + 1]

refresh(view) == [view EXCEPT !.refresh = @ + 1]

\* -------------------------------------------------------------- GameModel

\* GameModel.__init__
GameModel_init(text) ==
    [view   |-> init_screen(MockView),
     tracer |-> -PLAYER_INIT_OFFSET,
     player |-> 0,
     text   |-> text,
     result |-> "Unset"]

\* start that forgets to push the text to the view
start_silent(m) == m

\* GameModel.start
start(m) == [m EXCEPT !.view = game_screen(m.view)]

\* self.text[self.player] raises IndexError (player is never negative)
player_move_raises(m) == m.player >= Len(m.text)

\* player_move with the win test written as `>`
player_move_never_wins(m, key) ==
    IF player_move_raises(m) THEN m
    ELSE IF key = m.text[m.player + 1]
    THEN [m EXCEPT !.player = @ + 1,
                   !.view = refresh(move_player(print_message(m.view, "")))]
    ELSE LET t == m.tracer + 1
             v == drop_floor(print_message(m.view, "WRONG KEY"))
         IN  IF t = m.player
             THEN [m EXCEPT !.tracer = t, !.result = "Lost",
                            !.view = refresh(death_screen(v))]
             ELSE [m EXCEPT !.tracer = t, !.view = refresh(v)]

\* player_move with the loss test off by one: the hazard kills one step early
player_move_early_loss(m, key) ==
    IF player_move_raises(m) THEN m
    ELSE IF key = m.text[m.player + 1]
    THEN LET p == m.player + 1
             v == move_player(print_message(m.view, ""))
         IN  IF p = Len(m.text)
             THEN [m EXCEPT !.player = p, !.result = "Won",
                            !.view = refresh(win_screen(v))]
             ELSE [m EXCEPT !.player = p, !.view = refresh(v)]
    ELSE LET t == m.tracer + 1
             v == drop_floor(print_message(m.view, "WRONG KEY"))
         IN  IF t + 1 >= m.player
             THEN [m EXCEPT !.tracer = t, !.result = "Lost",
                            !.view = refresh(death_screen(v))]
             ELSE [m EXCEPT !.tracer = t, !.view = refresh(v)]

\* player_move whose match branch does not clear the message
player_move_keeps_message(m, key) ==
    IF player_move_raises(m) THEN m
    ELSE IF key = m.text[m.player + 1]
    THEN LET p == m.player + 1
             v == move_player(m.view)
         IN  IF p = Len(m.text)
             THEN [m EXCEPT !.player = p, !.result = "Won",
                            !.view = refresh(win_screen(v))]
             ELSE [m EXCEPT !.player = p, !.view = refresh(v)]
    ELSE LET t == m.tracer + 1
             v == drop_floor(print_message(m.view, "WRONG KEY"))
         IN  IF t = m.player
             THEN [m EXCEPT !.tracer = t, !.result = "Lost",
                            !.view = refresh(death_screen(v))]
             ELSE [m EXCEPT !.tracer = t, !.view = refresh(v)]

\* player_move with the `else` lost: the hazard advances on every key
player_move_no_else(m, key) ==
    IF player_move_raises(m) THEN m
    ELSE LET hit == key = m.text[m.player + 1]
             p == IF hit THEN m.player + 1 ELSE m.player
             t == m.tracer + 1
             v1 == IF hit THEN move_player(print_message(m.view, ""))
                   ELSE m.view
             won == hit /\ p = Len(m.text)
             v2 == IF won THEN win_screen(v1) ELSE v1
             v3 == drop_floor(print_message(v2, "WRONG KEY"))
             lost == t = p
             v4 == IF lost THEN death_screen(v3) ELSE v3
         IN  [m EXCEPT !.player = p, !.tracer = t, !.view = refresh(v4),
                       !.result = IF lost THEN "Lost"
                                  ELSE IF won THEN "Won" ELSE @]

\* GameModel.player_move; when the index raises nothing was changed yet
player_move(m, key) ==
    IF player_move_raises(m) THEN m
    ELSE IF key = m.text[m.player + 1]
    THEN LET p == m.player + 1
             v == move_player(print_message(m.view, ""))
         IN  IF p = Len(m.text)
             THEN [m EXCEPT !.player = p, !.result = "Won",
                            !.view = refresh(win_screen(v))]
             ELSE [m EXCEPT !.player = p, !.view = refresh(v)]
    ELSE LET t == m.tracer + 1
             v == drop_floor(print_message(m.view, "WRONG KEY"))
         IN  IF t = m.player
             THEN [m EXCEPT !.tracer = t, !.result = "Lost",
                            !.view = refresh(death_screen(v))]
             ELSE [m EXCEPT !.tracer = t, !.view = refresh(v)]

\* timer_fired with the loss test written as `>`: the hazard kills one
\* step late
timer_fired_late_loss(m) ==
    LET t == m.tracer + 1
        v == drop_floor(m.view)
    IN  IF t > m.player
        THEN [m EXCEPT !.tracer = t, !.result = "Lost",
                       !.view = refresh(death_screen(v))]
        ELSE [m EXCEPT !.tracer = t, !.view = refresh(v)]

\* GameModel.timer_fired
timer_fired(m) ==
    LET t == m.tracer + 1
        v == drop_floor(m.view)
    IN  IF t = m.player
        THEN [m EXCEPT !.tracer = t, !.result = "Lost",
                       !.view = refresh(death_screen(v))]
        ELSE [m EXCEPT !.tracer = t, !.view = refresh(v)]

\* GameModel.get_result
get_result(m) == m.result

\* --------------------------------------------------------- GameController

\* check_finish_state on a future that accepts a second set_result
check_finish_state_overwrites(m, st) ==
    IF get_result(m) # "Unset"
    THEN [state |-> get_result(m), ret |-> "True"]
    ELSE [state |-> st, ret |-> "False"]

\* check_finish_state that returns True without resolving the future
check_finish_state_forgets(m, st) ==
    IF get_result(m) # "Unset"
    THEN [state |-> st, ret |-> "True"]
    ELSE [state |-> st, ret |-> "False"]

\* GameController.check_finish_state: the new value of the future and what
\* the call does: returns True, returns False, or Future.set_result raises
\* InvalidStateError because the future is already done
check_finish_state(m, st) ==
    IF get_result(m) # "Unset"
    THEN IF st = "PENDING"
         THEN [state |-> get_result(m), ret |-> "True"]
         ELSE [state |-> st, ret |-> "InvalidStateError"]
    ELSE [state |-> st, ret |-> "False"]

\* where an actor's task is after check_finish_state: returned, back in its
\* await, or finished with the exception
after_check(ret) ==
    IF ret = "True" THEN "done"
    ELSE IF ret = "False" THEN "waiting"
    ELSE ret

\* the event loop still runs callbacks: loop() is awaiting, or it returned
\* and run_until_complete has not stopped the loop yet
loop_running == pc_loop \in {"awaiting", "returned"}

\* the last-character race: the tick would bring tracer to player and the
\* correct key would finish the text
race_state(m) ==
    /\ m.result = "Unset"
    /\ Len(m.text) > 0
    /\ m.player = Len(m.text) - 1
    /\ m.tracer = m.player - 1

\* the race bookkeeping after stdin_actor processed key on model m
race_after_key(m, key) ==
    IF player_move_raises(m) THEN race
    ELSE IF race = "none" /\ race_state(m) /\ key = m.text[m.player + 1]
    THEN "key"
    ELSE IF race = "tick"
    THEN (IF key = m.text[m.player + 1] THEN "tick_key" ELSE "tick_other")
    ELSE race

\* the race bookkeeping after timer_actor processed a tick on model m
race_after_tick(m) ==
    IF race = "none" /\ race_state(m) THEN "tick"
    ELSE IF race = "key" THEN "key_tick"
    ELSE race

\* no paged model exists in a run of this controller
NoPagedModel == [state |-> "ABSENT"]

\* ------------------------------------------------------------------- Init

\* a model was constructed on some text and a controller on the model
Init ==
    /\ model \in {GameModel_init(text) : text \in Texts}
    /\ state = "PENDING"
    /\ pc_stdin = "not created"
    /\ pc_timer = "not created"
    /\ pc_loop = "init"
    /\ returned = "NONE"
    /\ trace = <<>>
    /\ exc = "none"
    /\ race = "none"
    /\ paged = NoPagedModel
    /\ original = <<>>
    /\ typed = <<>>

\* ---------------------------------------------------------------- actions

\* GameController.loop up to its await: start the model, create both tasks
Loop ==
    /\ pc_loop = "init"
    /\ model' = start(model)
    /\ pc_stdin' = "waiting"
    /\ pc_timer' = "waiting"
    /\ pc_loop' = "awaiting"
    /\ UNCHANGED <<state, returned, trace, exc, race>>
    /\ UNCHANGED paged_vars

\* one turn of stdin_actor: wait_key delivered key
StdinActor ==
    /\ loop_running
    /\ pc_stdin = "waiting"
    /\ \E key \in Keys :
        LET m == player_move(model, key)
            c == check_finish_state(m, state)
        IN  /\ model' = m
            /\ race' = race_after_key(model, key)
            /\ IF player_move_raises(model)
               THEN /\ pc_stdin' = "IndexError"
                    /\ state' = state
               ELSE /\ pc_stdin' = after_check(c.ret)
                    /\ state' = c.state
    /\ UNCHANGED <<pc_timer, pc_loop, returned, trace, exc>>
    /\ UNCHANGED paged_vars

\* wait_key raises (the input closed): the task ends with the exception
StdinWaitKeyFails ==
    /\ loop_running
    /\ pc_stdin = "waiting"
    /\ pc_stdin' = "WaitKeyError"
    /\ UNCHANGED <<model, state, pc_timer, pc_loop, returned, trace, exc, race>>
    /\ UNCHANGED paged_vars

\* one turn of timer_actor: the sleep is over
TimerActor ==
    /\ loop_running
    /\ pc_timer = "waiting"
    /\ LET m == timer_fired(model)
           c == check_finish_state(m, state)
       IN  /\ model' = m
           /\ race' = race_after_tick(model)
           /\ pc_timer' = after_check(c.ret)
           /\ state' = c.state
    /\ UNCHANGED <<pc_stdin, pc_loop, returned, trace, exc>>
    /\ UNCHANGED paged_vars

\* `return await self.state`: the future is done, loop() resumes
LoopReturn ==
    /\ pc_loop = "awaiting"
    /\ state # "PENDING"
    /\ returned' = state
    /\ pc_loop' = "returned"
    /\ UNCHANGED <<model, state, pc_stdin, pc_timer, trace, exc, race>>
    /\ UNCHANGED paged_vars

\* run_until_complete stops the event loop; pending tasks never run again
LoopStop ==
    /\ pc_loop = "returned"
    /\ pc_loop' = "stopped"
    /\ UNCHANGED <<model, state, pc_stdin, pc_timer, returned, trace, exc, race>>
    /\ UNCHANGED paged_vars

Next ==
    \/ Loop
    \/ StdinActor
    \/ StdinWaitKeyFails
    \/ TimerActor
    \/ LoopReturn
    \/ LoopStop

Spec == Init /\ [][Next]_vars

\* the scheduling asyncio guarantees: a sleep always ends, so the timer
\* actor gets its turn; a done future wakes the coroutine awaiting it; a
\* coroutine handed to run_until_complete is started
SpecFair ==
    /\ Spec
    /\ WF_vars(Loop)
    /\ WF_vars(TimerActor)
    /\ WF_vars(LoopReturn)

\* -------------------------------------------- the model driven by a test

\* a test calls model.start() itself, no controller involved
TestStart ==
    /\ pc_loop = "init"
    /\ model' = start(model)
    /\ pc_loop' = "test"
    /\ UNCHANGED <<state, pc_stdin, pc_timer, returned, trace, exc, race>>
    /\ UNCHANGED paged_vars

\* a test calls model.player_move(key)
CallPlayerMove ==
    /\ pc_loop = "test"
    /\ Len(trace) < MaxCalls
    /\ \E key \in Keys :
        /\ model' = player_move(model, key)
        /\ trace' = Append(trace, key)
    /\ exc' = IF player_move_raises(model) THEN "IndexError" ELSE "none"
    /\ UNCHANGED <<state, pc_stdin, pc_timer, pc_loop, returned, race>>
    /\ UNCHANGED paged_vars

\* a test calls model.timer_fired()
CallTimerFired ==
    /\ pc_loop = "test"
    /\ Len(trace) < MaxCalls
    /\ model' = timer_fired(model)
    /\ trace' = Append(trace, "TICK")
    /\ exc' = "none"
    /\ UNCHANGED <<state, pc_stdin, pc_timer, pc_loop, returned, race>>
    /\ UNCHANGED paged_vars

NextModel ==
    \/ TestStart
    \/ CallPlayerMove
    \/ CallTimerFired

SpecModel == Init /\ [][NextModel]_vars

\* ------------------------------- the paged game (src/cursedtypist/game.py)
\* with the event loop of src/cursedtypist/events.py

\* widest screen explored: the most characters game_screen reports
MaxDisplayed == 2

\* params.PLAYER_OFFSET
PLAYER_OFFSET == 10

\* what a view may answer to game_screen: the room it has for text, which
\* can be 0 on a narrow screen and can exceed the text left
Displayed == 0..MaxDisplayed

\* a mock of the paged GameView on which nothing was called yet
PagedMockView ==
    [init_screen |-> 0, death_screen |-> 0, win_screen |-> 0,
     game_screen |-> 0, print_message |-> 0, clear_text_cell |-> 0,
     clear_floor_cell |-> 0, draw_player |-> 0, refresh |-> 0,
     message |-> "NOT CALLED"]

\* one more call of the view's method `name`
called(view, name) == [view EXCEPT ![name] = @ + 1]

\* text[:displayed] for displayed >= 0
slice_to(text, displayed) ==
    SubSeq(text, 1, IF displayed < Len(text) THEN displayed ELSE Len(text))

\* text[displayed:] for displayed >= 0
slice_from(text, displayed) ==
    SubSeq(text, (IF displayed < Len(text) THEN displayed ELSE Len(text)) + 1,
           Len(text))

\* the paged GameModel.__init__
PagedGameModel_init(text) ==
    [view     |-> called(PagedMockView, "init_screen"),
     tracer   |-> 0,
     player   |-> PLAYER_OFFSET,
     typepos  |-> 0,
     typetext |-> <<>>,
     fulltext |-> text,
     finished |-> "PENDING",
     state    |-> "INIT"]

\* _swap_gamescreen that leaves the displayed part in fulltext
swap_gamescreen_repeats(m, displayed) ==
    IF m.fulltext = <<>>
    THEN [m EXCEPT !.view = called(@, "win_screen"), !.finished = "DONE"]
    ELSE [m EXCEPT !.view = called(called(@, "clear_text_cell"), "game_screen"),
                   !.tracer = 0,
                   !.player = PLAYER_OFFSET,
                   !.typetext = slice_to(m.fulltext, displayed)]

\* GameModel._swap_gamescreen; displayed is what view.game_screen returned
swap_gamescreen(m, displayed) ==
    IF m.fulltext = <<>>
    THEN [m EXCEPT !.view = called(@, "win_screen"), !.finished = "DONE"]
    ELSE [m EXCEPT !.view = called(called(@, "clear_text_cell"), "game_screen"),
                   !.tracer = 0,
                   !.player = PLAYER_OFFSET,
                   !.typetext = slice_to(m.fulltext, displayed),
                   !.fulltext = slice_from(m.fulltext, displayed)]

\* self.typetext[self.typepos] raises IndexError
paged_player_move_raises(m) ==
    m.state # "INIT" /\ m.typepos >= Len(m.typetext)

\* the paged GameModel.player_move
paged_player_move(m, key, displayed) ==
    IF m.state = "INIT"
    THEN swap_gamescreen([m EXCEPT !.state = "GAME"], displayed)
    ELSE IF paged_player_move_raises(m) THEN m
    ELSE IF key = m.typetext[m.typepos + 1]
    THEN LET v == called(called(print_message(m.view, ""),
                                "clear_text_cell"), "draw_player")
             m1 == [m EXCEPT !.view = v, !.player = @ + 1, !.typepos = @ + 1]
             m2 == IF m1.typepos = Len(m1.typetext)
                   THEN swap_gamescreen([m1 EXCEPT !.typepos = 0], displayed)
                   ELSE m1
         IN  [m2 EXCEPT !.view = called(@, "refresh")]
    ELSE LET v == called(called(print_message(m.view, "WRONG KEY"),
                                "clear_floor_cell"), "refresh")
             m1 == [m EXCEPT !.tracer = @ + 1, !.view = v]
         IN  IF m1.tracer = m1.player
             THEN [m1 EXCEPT !.view = called(@, "death_screen"),
                             !.finished = "DONE"]
             ELSE m1

\* timer_fired without the test of the INIT state
paged_timer_fired_no_init(m) ==
    LET v == called(called(m.view, "clear_floor_cell"), "refresh")
        m1 == [m EXCEPT !.tracer = @ + 1, !.view = v]
    IN  IF m1.tracer = m1.player
        THEN [m1 EXCEPT !.view = called(@, "death_screen"),
                        !.finished = "DONE"]
        ELSE m1

\* the paged GameModel.timer_fired
paged_timer_fired(m) ==
    IF m.state = "INIT" THEN m
    ELSE LET v == called(called(m.view, "clear_floor_cell"), "refresh")
             m1 == [m EXCEPT !.tracer = @ + 1, !.view = v]
         IN  IF m1.tracer = m1.player
             THEN [m1 EXCEPT !.view = called(@, "death_screen"),
                             !.finished = "DONE"]
             ELSE m1

\* an actor that never looks at the exit condition
running_always(m) == TRUE

\* GameController.running
running(m) == m.finished # "DONE"

\* the call went through finished.set_result: each one follows a terminal
\* screen
resolves(m, m2) ==
    m2.view.win_screen + m2.view.death_screen >
        m.view.win_screen + m.view.death_screen

\* the key was accepted as correct: the player was drawn one cell further
accepted(m, m2) == m2.view.draw_player > m.view.draw_player

\* the event loop of run_event_loop still runs callbacks
events_running == pc_loop \in {"events awaiting", "events returned"}

\* a paged model was constructed on some text and a controller on it
InitPaged ==
    /\ original \in Texts
    /\ paged = PagedGameModel_init(original)
    /\ typed = <<>>
    /\ model = GameModel_init(<<>>)
    /\ state = "PENDING"
    /\ pc_stdin = "not created"
    /\ pc_timer = "not created"
    /\ pc_loop = "events init"
    /\ returned = "NONE"
    /\ trace = <<>>
    /\ exc = "none"
    /\ race = "none"

\* event_main_loop up to its await: create both tasks
EventMainLoop ==
    /\ pc_loop = "events init"
    /\ pc_stdin' = "waiting"
    /\ pc_timer' = "waiting"
    /\ pc_loop' = "events awaiting"
    /\ UNCHANGED <<model, state, returned, trace, exc, race, paged_vars>>

\* one turn of events.stdin_actor: stdin became readable; leave when the
\* game is over, else keyboard_event reads the key and moves the player
EventsStdinActor ==
    /\ events_running
    /\ pc_stdin = "waiting"
    /\ IF ~running(paged)
       THEN /\ pc_stdin' = "done"
            /\ UNCHANGED paged_vars
       ELSE \E key \in Keys, displayed \in Displayed :
            LET m2 == paged_player_move(paged, key, displayed)
            IN  /\ paged' = m2
                /\ typed' = IF accepted(paged, m2) THEN Append(typed, key)
                            ELSE typed
                /\ original' = original
                /\ pc_stdin' =
                     IF paged_player_move_raises(paged) THEN "IndexError"
                     ELSE IF paged.finished = "DONE" /\ resolves(paged, m2)
                     THEN "InvalidStateError"
                     ELSE "waiting"
    /\ UNCHANGED <<model, state, pc_timer, pc_loop, returned, trace, exc, race>>

\* one turn of events.timer_actor: the sleep is over; leave when the game
\* is over, else timer_event
EventsTimerActor ==
    /\ events_running
    /\ pc_timer = "waiting"
    /\ IF ~running(paged)
       THEN /\ pc_timer' = "done"
            /\ UNCHANGED paged_vars
       ELSE LET m2 == paged_timer_fired(paged)
            IN  /\ paged' = m2
                /\ UNCHANGED <<original, typed>>
                /\ pc_timer' =
                     IF paged.finished = "DONE" /\ resolves(paged, m2)
                     THEN "InvalidStateError"
                     ELSE "waiting"
    /\ UNCHANGED <<model, state, pc_stdin, pc_loop, returned, trace, exc, race>>

\* wait_for_completion: model.finished is done, event_main_loop resumes
EventMainLoopReturn ==
    /\ pc_loop = "events awaiting"
    /\ paged.finished = "DONE"
    /\ pc_loop' = "events returned"
    /\ UNCHANGED <<model, state, pc_stdin, pc_timer, returned, trace, exc, race,
                   paged_vars>>

\* run_until_complete stops the event loop
RunEventLoopStop ==
    /\ pc_loop = "events returned"
    /\ pc_loop' = "events stopped"
    /\ UNCHANGED <<model, state, pc_stdin, pc_timer, returned, trace, exc, race,
                   paged_vars>>

NextPaged ==
    \/ EventMainLoop
    \/ EventsStdinActor
    \/ EventsTimerActor
    \/ EventMainLoopReturn
    \/ RunEventLoopStop

SpecPaged == InitPaged /\ [][NextPaged]_vars

\* ----------------------------------------------------------------- typing

TypeOK ==
    /\ model.text \in Texts
    /\ model.player \in 0..MaxLen
    /\ model.tracer \in Int
    /\ model.result \in {"Unset", "Won", "Lost"}
    /\ state \in {"PENDING", "Won", "Lost"}
    /\ pc_stdin \in {"not created", "waiting", "done", "IndexError",
                     "WaitKeyError", "InvalidStateError"}
    /\ pc_timer \in {"not created", "waiting", "done", "InvalidStateError"}
    /\ pc_loop \in {"init", "awaiting", "returned", "stopped", "test"}
    /\ returned \in {"NONE", "Won", "Lost"}

\* ----------------------------------------------------------------- claims

\* C1: in every state reachable while loop() drives the model,
\* tracer <= player <= len(text).
PositionsOrdered ==
    /\ model.tracer <= model.player
    /\ model.player <= Len(model.text)

\* C2: result is write-once: once it is Won or Lost no later key event or
\* timer tick changes it.
ResultWriteOnce ==
    [][model.result # "Unset" => model'.result = model.result]_vars

\* C3: once result is set neither actor enters the model again: player and
\* tracer stay as they are and the view receives no further notification.
NoWriterAfterResult ==
    [][model.result # "Unset" => model' = model]_vars

\* C4: the completion signal is resolved exactly once; a later
\* check_finish_state of the other actor neither changes the resolved value
\* nor raises.
StateResolvedOnce ==
    /\ [](pc_stdin # "InvalidStateError" /\ pc_timer # "InvalidStateError")
    /\ [][state # "PENDING" => state' = state]_vars

\* C5: the value loop() delivers is true exactly when the model's result is
\* Won and false exactly when it is Lost.
DeliveredIsModelResult ==
    pc_loop \in {"returned", "stopped"} =>
        /\ returned # "NONE"
        /\ (returned = "Won") <=> (model.result = "Won")
        /\ (returned = "Lost") <=> (model.result = "Lost")

\* C6: a correct keystroke processed while result is Unset that brings
\* player to len(text) sets result to Won, never Lost, whatever tracer is.
WinTakesPrecedence ==
    [][(/\ model.result = "Unset"
        /\ model'.player = model.player + 1
        /\ model'.player = Len(model.text)) => model'.result = "Won"]_vars

\* C6 happens: the game was won by a keystroke with the hazard one tick
\* away from ending it
WinWithHazardClose ==
    /\ pc_loop \in {"awaiting", "returned", "stopped"}
    /\ model.result = "Won"
    /\ model.player = Len(model.text)
    /\ model.tracer = model.player - 2
    /\ model.view.win_screen = 1
    /\ model.view.death_screen = 0

TerminationIdempotent ==
    [][(pc_loop = "test" /\ model.result # "Unset") => model' = model]_vars

\* C9: feeding the characters of a non-empty text in order, no tick in
\* between, moves player through 1..len(text), leaves result Unset until
\* the last character and sets it to Won on the last one; tracer never
\* changes, drop_floor and death_screen are never notified.
WinPath ==
    (/\ pc_loop = "test"
     /\ Len(model.text) > 0
     /\ Len(trace) <= Len(model.text)
     /\ \A i \in 1..Len(trace) : trace[i] = model.text[i])
    =>
    (/\ model.player = Len(trace)
     /\ model.result = (IF Len(trace) = Len(model.text) THEN "Won" ELSE "Unset")
     /\ model.tracer = -PLAYER_INIT_OFFSET
     /\ model.view.drop_floor = 0
     /\ model.view.death_screen = 0
     /\ model.view.move_player = Len(trace)
     /\ exc = "none")

\* C9 happens: a text of the longest length was typed to the end
WinPathDone ==
    /\ pc_loop = "test"
    /\ Len(model.text) = MaxLen
    /\ trace = model.text
    /\ model.result = "Won"
    /\ model.view.win_screen = 1

\* C10: from the initial state of a non-empty text, PLAYER_INIT_OFFSET
\* consecutive wrong keys leave result Unset after each of the first
\* PLAYER_INIT_OFFSET-1 keys and set it to Lost on the last one, when
\* tracer == 0 == player; player never moves, move_player and win_screen are
\* never notified.
LossPath ==
    (/\ pc_loop = "test"
     /\ Len(model.text) > 0
     /\ Len(trace) <= PLAYER_INIT_OFFSET
     /\ \A i \in 1..Len(trace) : trace[i] \in Keys /\ trace[i] # model.text[1])
    =>
    (/\ model.player = 0
     /\ model.tracer = Len(trace) - PLAYER_INIT_OFFSET
     /\ model.result = (IF Len(trace) = PLAYER_INIT_OFFSET THEN "Lost" ELSE "Unset")
     /\ model.view.move_player = 0
     /\ model.view.win_screen = 0
     /\ model.view.drop_floor = Len(trace)
     /\ model.view.message = (IF trace = <<>> THEN "NOT CALLED" ELSE "WRONG KEY"))

\* C10 happens: PLAYER_INIT_OFFSET wrong keys were fed and the hazard stands
\* on the player at the start position
LossPathDone ==
    /\ pc_loop = "test"
    /\ Len(model.text) > 0
    /\ Len(trace) = PLAYER_INIT_OFFSET
    /\ \A i \in 1..Len(trace) : trace[i] \in Keys /\ trace[i] # model.text[1]
    /\ model.result = "Lost"
    /\ model.tracer = 0
    /\ model.player = 0
    /\ model.view.death_screen = 1

\* C11: from the initial state, exactly PLAYER_INIT_OFFSET calls of
\* timer_fired with no keystroke in between set result to Lost on the last
\* call and not before; player never moves and no message is printed.
TimerOnlyLoss ==
    (/\ pc_loop = "test"
     /\ Len(trace) <= PLAYER_INIT_OFFSET
     /\ \A i \in 1..Len(trace) : trace[i] = "TICK")
    =>
    (/\ model.player = 0
     /\ model.tracer = Len(trace) - PLAYER_INIT_OFFSET
     /\ model.result = (IF Len(trace) = PLAYER_INIT_OFFSET THEN "Lost" ELSE "Unset")
     /\ model.view.death_screen = (IF Len(trace) = PLAYER_INIT_OFFSET THEN 1 ELSE 0)
     /\ model.view.move_player = 0
     /\ model.view.print_message = 0
     /\ model.view.drop_floor = Len(trace))

\* C11 happens: PLAYER_INIT_OFFSET ticks and nothing else were fed to a
\* model of a non-empty text
TimerOnlyLossDone ==
    /\ pc_loop = "test"
    /\ Len(model.text) > 0
    /\ Len(trace) = PLAYER_INIT_OFFSET
    /\ \A i \in 1..Len(trace) : trace[i] = "TICK"
    /\ model.result = "Lost"
    /\ model.tracer = 0

\* C12: in every reachable state, for every text including the empty one,
\* player == len(text) implies result == Won.
AtEndImpliesWon ==
    model.player = Len(model.text) => model.result = "Won"

\* C13: in every reachable state in which the player has left the start
\* position, tracer == player implies result == Lost: the hazard never
\* reaches the player while the game stays Unset or becomes Won.
CaughtImpliesLost ==
    (model.player > 0 /\ model.tracer = model.player) => model.result = "Lost"

\* C13 happens: the hazard caught a player who had typed at least one
\* character, under loop()
CaughtAwayFromStart ==
    /\ pc_loop \in {"awaiting", "returned", "stopped"}
    /\ model.player > 0
    /\ model.tracer = model.player
    /\ model.view.death_screen = 1

\* C14: on an empty text start() leaves the game won (result Won, win screen
\* notified), the run completes with true, and no transition indexes the
\* text at position len(text).
EmptyTextWonAtStart ==
    (Len(model.text) = 0 /\ pc_loop # "init") =>
        /\ model.result = "Won"
        /\ model.view.win_screen = 1
        /\ pc_stdin # "IndexError"
        /\ exc # "IndexError"
        /\ returned \in {"NONE", "Won"}

\* C15: when wait_key fails while the game is running, the completion signal
\* is never resolved with false (a loss) afterwards.
NoLossAfterInputFailure ==
    [][(pc_stdin = "WaitKeyError" /\ state = "PENDING") => state' # "Lost"]_vars

\* C16: once the completion signal is resolved the actor that did not end
\* the game is stopped as well: when the event loop stops no actor is still
\* pending and none has taken a step on the resolved signal.
ActorsStoppedWithGame ==
    pc_loop = "stopped" =>
        /\ pc_stdin \notin {"waiting", "InvalidStateError"}
        /\ pc_timer \notin {"waiting", "InvalidStateError"}

\* C17: a correct keystroke processed while result is Unset increases
\* player by exactly 1 and leaves tracer unchanged; it notifies move_player
\* and print_message("") and never drop_floor or death_screen, and the game
\* stays unfinished unless player reached len(text).
CorrectKeyFrame ==
    [][(/\ pc_loop = "test"
        /\ model.result = "Unset"
        /\ Len(trace') = Len(trace) + 1
        /\ ~player_move_raises(model)
        /\ trace'[Len(trace')] = model.text[model.player + 1])
       =>
       (/\ model'.player = model.player + 1
        /\ model'.tracer = model.tracer
        /\ model'.view.move_player = model.view.move_player + 1
        /\ model'.view.print_message = model.view.print_message + 1
        /\ model'.view.message = ""
        /\ model'.view.drop_floor = model.view.drop_floor
        /\ model'.view.death_screen = model.view.death_screen
        /\ model'.view.refresh = model.view.refresh + 1
        /\ model'.result =
             (IF model'.player = Len(model.text) THEN "Won" ELSE "Unset")
        /\ model'.view.win_screen = model.view.win_screen +
             (IF model'.player = Len(model.text) THEN 1 ELSE 0))]_vars

\* C17 happens: the last call was a correct keystroke after a wrong one, and
\* the game goes on
CorrectKeyAfterWrongKey ==
    /\ pc_loop = "test"
    /\ Len(trace) >= 2
    /\ model.result = "Unset"
    /\ model.player = 1
    /\ trace[Len(trace)] = model.text[1]
    /\ model.view.print_message = 2
    /\ model.view.message = ""

\* C18: a wrong keystroke processed while result is Unset increases tracer
\* by exactly 1 and leaves player unchanged; it notifies drop_floor and
\* print_message("WRONG KEY") and never move_player or win_screen, and the
\* game stays unfinished unless tracer reached player.
WrongKeyFrame ==
    [][(/\ pc_loop = "test"
        /\ model.result = "Unset"
        /\ Len(trace') = Len(trace) + 1
        /\ ~player_move_raises(model)
        /\ trace'[Len(trace')] \in Keys
        /\ trace'[Len(trace')] # model.text[model.player + 1])
       =>
       (/\ model'.tracer = model.tracer + 1
        /\ model'.player = model.player
        /\ model'.view.drop_floor = model.view.drop_floor + 1
        /\ model'.view.print_message = model.view.print_message + 1
        /\ model'.view.message = "WRONG KEY"
        /\ model'.view.move_player = model.view.move_player
        /\ model'.view.win_screen = model.view.win_screen
        /\ model'.view.refresh = model.view.refresh + 1
        /\ model'.result =
             (IF model'.tracer = model.player THEN "Lost" ELSE "Unset")
        /\ model'.view.death_screen = model.view.death_screen +
             (IF model'.tracer = model.player THEN 1 ELSE 0))]_vars

\* C18 happens: the last call was a wrong keystroke after a correct one, and
\* the game goes on
WrongKeyAfterCorrectKey ==
    /\ pc_loop = "test"
    /\ Len(trace) = 2
    /\ model.result = "Unset"
    /\ model.player = 1
    /\ trace[1] = model.text[1]
    /\ trace[2] \in Keys
    /\ model.tracer = 1 - PLAYER_INIT_OFFSET
    /\ model.view.message = "WRONG KEY"

\* C19: timer_fired processed while result is Unset increases tracer by
\* exactly 1 and leaves player unchanged; it notifies drop_floor, emits no
\* print_message and no move_player, and the game stays unfinished unless
\* tracer reached player.
TimerFiredFrame ==
    [][(/\ pc_loop = "test"
        /\ model.result = "Unset"
        /\ Len(trace') = Len(trace) + 1
        /\ trace'[Len(trace')] = "TICK")
       =>
       (/\ model'.tracer = model.tracer + 1
        /\ model'.player = model.player
        /\ model'.view.drop_floor = model.view.drop_floor + 1
        /\ model'.view.print_message = model.view.print_message
        /\ model'.view.message = model.view.message
        /\ model'.view.move_player = model.view.move_player
        /\ model'.view.win_screen = model.view.win_screen
        /\ model'.view.refresh = model.view.refresh + 1
        /\ model'.result =
             (IF model'.tracer = model.player THEN "Lost" ELSE "Unset")
        /\ model'.view.death_screen = model.view.death_screen +
             (IF model'.tracer = model.player THEN 1 ELSE 0))]_vars

\* C19 happens: the last call was a tick that caught a player who had moved
TickCatchesMovedPlayer ==
    /\ pc_loop = "test"
    /\ trace # <<>>
    /\ trace[Len(trace)] = "TICK"
    /\ model.player = 1
    /\ model.tracer = 1
    /\ model.result = "Lost"
    /\ model.view.death_screen = 1
    /\ model.view.drop_floor = PLAYER_INIT_OFFSET + 1

\* C20: constructing a GameModel notifies only init_screen; the text is
\* pushed to the view by start(), which loop() calls exactly once and
\* before any player_move or timer_fired.
StartOnceBeforeTransitions ==
    /\ model.view.init_screen = 1
    /\ model.view.game_screen = (IF pc_loop = "init" THEN 0 ELSE 1)
    /\ pc_loop = "init" =>
        /\ model.view.death_screen = 0
        /\ model.view.win_screen = 0
        /\ model.view.print_message = 0
        /\ model.view.drop_floor = 0
        /\ model.view.move_player = 0
        /\ model.view.refresh = 0
        /\ model.player = 0
        /\ model.tracer = -PLAYER_INIT_OFFSET
        /\ pc_stdin = "not created"
        /\ pc_timer = "not created"

\* C20 happens: loop() has started the model and both kinds of transition
\* have run since
TransitionsAfterStart ==
    /\ pc_loop = "awaiting"
    /\ model.view.game_screen = 1
    /\ model.view.drop_floor >= 1
    /\ model.view.move_player >= 1

\* C21: over a whole game session at most one terminal screen is notified:
\* win_screen and death_screen are never both emitted, neither is emitted
\* twice, and the one emitted matches the result delivered to the caller.
OneTerminalScreen ==
    /\ model.view.win_screen + model.view.death_screen <= 1
    /\ returned = "Won" =>
         (model.view.win_screen = 1 /\ model.view.death_screen = 0)
    /\ returned = "Lost" =>
         (model.view.death_screen = 1 /\ model.view.win_screen = 0)

\* C22: player and tracer never decrease and are never reset; every
\* processed event (a transition that ran to its refresh) increases exactly
\* one of them by exactly 1 and leaves the other unchanged.
PositionsMonotonic ==
    [][/\ model'.player >= model.player
       /\ model'.tracer >= model.tracer
       /\ model'.view.refresh # model.view.refresh =>
            \/ (model'.player = model.player + 1 /\ model'.tracer = model.tracer)
            \/ (model'.tracer = model.tracer + 1 /\ model'.player = model.player)
       /\ model'.view.refresh = model.view.refresh =>
            (model'.player = model.player /\ model'.tracer = model.tracer)]_vars

\* C22 happens: under loop() both the player and the hazard have advanced
BothAdvanced ==
    /\ pc_loop = "awaiting"
    /\ model.player >= 2
    /\ model.tracer >= 2 - PLAYER_INIT_OFFSET
    /\ model.result = "Unset"

\* C23: the model starts with player == 0, tracer == -PLAYER_INIT_OFFSET and
\* result Unset; while result is Unset a hazard step (wrong key or tick)
\* sets result to Lost exactly when the number of hazard steps so far equals
\* PLAYER_INIT_OFFSET plus the number of correct keystrokes so far, so no
\* loss occurs before PLAYER_INIT_OFFSET hazard steps.
GraceWindow ==
    /\ [](pc_loop = "init" =>
            /\ model.player = 0
            /\ model.tracer = -PLAYER_INIT_OFFSET
            /\ model.result = "Unset")
    /\ [][(/\ model.result = "Unset"
           /\ model'.view.drop_floor = model.view.drop_floor + 1)
          =>
          (/\ model'.result \in {"Unset", "Lost"}
           /\ (model'.result = "Lost") <=>
                (model'.view.drop_floor =
                     PLAYER_INIT_OFFSET + model'.view.move_player)
           /\ model'.view.drop_floor <=
                PLAYER_INIT_OFFSET + model'.view.move_player)]_vars
    /\ [](model.view.death_screen > 0 =>
            model.view.drop_floor >= PLAYER_INIT_OFFSET)

\* C23 happens: the player typed two characters and was caught on hazard
\* step PLAYER_INIT_OFFSET + 2
CaughtAfterGrace ==
    /\ pc_loop \in {"awaiting", "returned", "stopped"}
    /\ model.result = "Lost"
    /\ model.view.move_player = 2
    /\ model.view.drop_floor = PLAYER_INIT_OFFSET + 2
    /\ model.view.death_screen = 1

\* C24: under loop() with a non-empty text and a timer that keeps firing,
\* the completion signal is eventually resolved and loop() returns, whatever
\* keys arrive and even if none does; at most
\* PLAYER_INIT_OFFSET + 2*len(text) events are processed before that.
GameTerminates ==
    /\ (pc_loop = "awaiting" /\ Len(model.text) > 0) ~> (returned # "NONE")
    /\ []((Len(model.text) > 0 /\ state = "PENDING") =>
            model.view.refresh < PLAYER_INIT_OFFSET + 2 * Len(model.text))

\* C24 happens: no key was ever processed and loop() returned for a
\* non-empty text
ReturnedWithoutKeys ==
    /\ Len(model.text) > 0
    /\ returned = "Lost"
    /\ model.view.print_message = 0
    /\ pc_stdin = "waiting"
    /\ model.view.refresh = PLAYER_INIT_OFFSET

\* C25: in the events.py event loop each actor checks controller.running()
\* after it wakes and before it touches the model: once model.finished is
\* done neither keyboard_event nor timer_event is invoked again and the
\* finished future is resolved at most once, for every interleaving.
NoEventAfterFinished ==
    /\ [][paged.finished = "DONE" => paged' = paged /\ typed' = typed]_vars
    /\ [](/\ pc_stdin # "InvalidStateError"
          /\ pc_timer # "InvalidStateError"
          /\ paged.view.win_screen + paged.view.death_screen <= 1
          /\ (paged.finished = "DONE") <=>
               (paged.view.win_screen + paged.view.death_screen = 1))

\* C25 happens: the game was lost and both actors woke once more, saw that
\* it was over and left
BothActorsLeft ==
    /\ paged.finished = "DONE"
    /\ paged.view.death_screen = 1
    /\ pc_stdin = "done"
    /\ pc_timer = "done"

\* C26 as stated: while state is INIT timer_fired changes nothing, and the
\* first player_move only switches INIT to GAME and shows the first screen:
\* its key is not compared with the text and it moves neither player nor
\* tracer; the game cannot be lost before the first keystroke.
FirstKeyOnlyStarts ==
    /\ [][paged.state = "INIT" =>
            \/ paged' = paged
            \/ /\ paged'.state = "GAME"
               /\ paged'.player = paged.player
               /\ paged'.tracer = paged.tracer
               /\ paged'.typepos = paged.typepos
               /\ typed' = typed
               /\ paged'.view.print_message = 0
               /\ paged'.view.draw_player = 0
               /\ paged'.view.clear_floor_cell = 0
               /\ paged'.view.death_screen = 0
               /\ paged'.view.game_screen = 1
               /\ paged'.view.win_screen = 0
               /\ paged'.finished = "PENDING"]_vars
    /\ [](paged.state = "INIT" =>
            /\ paged.finished = "PENDING"
            /\ paged.tracer = 0
            /\ paged.player = PLAYER_OFFSET
            /\ paged.view = called(PagedMockView, "init_screen"))

\* C26 as amended: the same, except that on an empty text the first
\* player_move shows no game screen but declares the win.
FirstKeyStartsOrWins ==
    /\ [][paged.state = "INIT" =>
            \/ paged' = paged
            \/ /\ paged'.state = "GAME"
               /\ paged'.player = paged.player
               /\ paged'.tracer = paged.tracer
               /\ paged'.typepos = paged.typepos
               /\ typed' = typed
               /\ paged'.view.print_message = 0
               /\ paged'.view.draw_player = 0
               /\ paged'.view.clear_floor_cell = 0
               /\ paged'.view.death_screen = 0
               /\ IF original # <<>>
                  THEN /\ paged'.view.game_screen = 1
                       /\ paged'.view.win_screen = 0
                       /\ paged'.finished = "PENDING"
                  ELSE /\ paged'.view.game_screen = 0
                       /\ paged'.view.win_screen = 1
                       /\ paged'.finished = "DONE"]_vars
    /\ [](paged.state = "INIT" =>
            /\ paged.finished = "PENDING"
            /\ paged.tracer = 0
            /\ paged.player = PLAYER_OFFSET
            /\ paged.view = called(PagedMockView, "init_screen"))

\* C26 happens: the first key started a game on a non-empty text and the
\* timer has fired since
StartedThenTick ==
    /\ paged.state = "GAME"
    /\ original # <<>>
    /\ typed = <<>>
    /\ paged.view.game_screen = 1
    /\ paged.view.print_message = 0
    /\ paged.tracer = 1

\* C27: screen swaps neither lose nor repeat text: what was typed, what is
\* left on the screen and what is left for later screens are the original
\* text in order; the win is declared exactly when the correct keystrokes
\* are the whole original text, unless the hazard reached the player first.
SwapsKeepText ==
    paged.state = "GAME" =>
        /\ paged.view.win_screen = 0 =>
             typed \o SubSeq(paged.typetext, paged.typepos + 1,
                             Len(paged.typetext)) \o paged.fulltext = original
        /\ Len(typed) <= Len(original)
        /\ typed = SubSeq(original, 1, Len(typed))
        /\ (paged.view.win_screen = 1) <=> (Len(typed) = Len(original))
        /\ paged.view.win_screen = 1 =>
             (paged.finished = "DONE" /\ paged.view.death_screen = 0)
        /\ paged.view.death_screen = 1 => Len(typed) < Len(original)

\* C27 happens: a text of the longest length was typed over three screens,
\* each reported with a positive count, and the win was declared
WonOverThreeScreens ==
    /\ paged.state = "GAME"
    /\ Len(original) = MaxLen
    /\ typed = original
    /\ paged.view.game_screen >= 3
    /\ paged.view.win_screen = 1
    /\ paged.finished = "DONE"

====
